---- MODULE Spec2Model ----
(***************************************************************************)
(* A model of the data browser's mock database service (MockDB), its       *)
(* permission functions and its query engine.                               *)
(*                                                                          *)
(* Strings are sequences of one-character strings, so that concatenation,  *)
(* prefix tests, splitting, case conversion and substring search are       *)
(* computed as the code computes them.  A value stored in a row is a       *)
(* record [t |-> "num" | "str", v |-> ...]; a row is the sequence of its   *)
(* fields [col, val] in insertion order (Object.keys / Object.values).     *)
(***************************************************************************)
EXTENDS Integers, Sequences, FiniteSets, TLC

(***************************************************************************)
(* Bounds of the model.                                                     *)
(***************************************************************************)
\* calls made in one behaviour of Spec
MaxCalls == 2
\* calls made in one behaviour of SpecData
MaxDataCalls == 3
\* calls whose delay() timer has not fired yet
MaxInFlight == 2
\* permission records in a permission set of SpecPerm
MaxPerms == 3
\* tokens concatenated into a clause of SpecFilter
MaxTokens == 3
\* calls made in one behaviour of SpecAuth
MaxAuthCalls == 3
\* calls made in one behaviour of SpecNames
MaxNameCalls == 3

(***************************************************************************)
(* Characters and strings.                                                  *)
(***************************************************************************)
\* the printable ASCII characters, in code-unit order (32 .. 126); the grave
\* accent (96) cannot be written in a string literal and is spelled "GRAVE"
Ascii ==
    << " ", "!", "\"", "#", "$", "%", "&", "'", "(", ")", "*", "+", ",", "-", ".", "/",
       "0", "1", "2", "3", "4", "5", "6", "7", "8", "9", ":", ";", "<", "=", ">", "?",
       "@", "A", "B", "C", "D", "E", "F", "G", "H", "I", "J", "K", "L", "M", "N", "O",
       "P", "Q", "R", "S", "T", "U", "V", "W", "X", "Y", "Z", "[", "\\", "]", "^", "_",
       "GRAVE", "a", "b", "c", "d", "e", "f", "g", "h", "i", "j", "k", "l", "m", "n", "o",
       "p", "q", "r", "s", "t", "u", "v", "w", "x", "y", "z", "{", "|", "}", "~" >>

Chars == { Ascii[i] : i \in 1..Len(Ascii) }

\* the UTF-16 code unit of a character
charCode[c \in Chars] == 31 + (CHOOSE i \in 1..Len(Ascii) : Ascii[i] = c)

\* String.prototype.toLowerCase on one character: A-Z map to a-z
toLowerCaseChar[c \in Chars] ==
    IF charCode[c] >= 65 /\ charCode[c] <= 90 THEN Ascii[charCode[c] - 31 + 32] ELSE c

toLowerCase(s) == [i \in 1..Len(s) |-> toLowerCaseChar[s[i]]]

\* String.prototype.startsWith
startsWith(s, p) == Len(p) <= Len(s) /\ SubSeq(s, 1, Len(p)) = p

\* String.prototype.includes: sub occurs in s at some position
includes(s, sub) ==
    \E i \in 1..(Len(s) - Len(sub) + 1) : SubSeq(s, i, i + Len(sub) - 1) = sub

\* the decimal digits of a natural number, most significant first
RECURSIVE Digits(_)
Digits(n) ==
    IF n < 10 THEN << Ascii[17 + n] >> ELSE Digits(n \div 10) \o << Ascii[17 + (n % 10)] >>

\* String(val): a number prints in decimal, a string is itself
String(val) ==
    IF val.t = "num"
    THEN (IF val.v < 0 THEN <<"-">> \o Digits(-val.v) ELSE Digits(val.v))
    ELSE val.v

Num(n) == [t |-> "num", v |-> n]
Str(s) == [t |-> "str", v |-> s]
Field(c, v) == [col |-> c, val |-> v]

\* s.split('.'): the segments of s between dots
RECURSIVE splitFrom(_, _, _)
splitFrom(s, i, cur) ==
    IF i > Len(s) THEN << cur >>
    ELSE IF s[i] = "." THEN << cur >> \o splitFrom(s, i + 1, << >>)
    ELSE splitFrom(s, i + 1, Append(cur, s[i]))

split(s) == splitFrom(s, 1, << >>)

\* lexicographic order on code units: the order Array.prototype.sort() uses by default
RECURSIVE strLess(_, _)
strLess(a, b) ==
    IF Len(b) = 0 THEN FALSE
    ELSE IF Len(a) = 0 THEN TRUE
    ELSE IF charCode[a[1]] < charCode[b[1]] THEN TRUE
    ELSE IF charCode[a[1]] > charCode[b[1]] THEN FALSE
    ELSE strLess(Tail(a), Tail(b))

(***************************************************************************)
(* Types (types.ts).  An optional field is << >> when undefined and <<x>>  *)
(* when it holds x.                                                         *)
(***************************************************************************)
PAGE_SIZE == 50

PermissionLevel == [READ |-> "read", WRITE |-> "write", ADMIN |-> "admin"]

undefined == << >>
Some(x) == << x >>

(***************************************************************************)
(* The mock data the service is constructed with.                          *)
(***************************************************************************)
MOCK_GROUPS ==
    << [id |-> 1, name |-> <<"A", "d", "m", "i", "n", "s">>, description |-> <<"F", "u", "l", "l", " ", "a", "c", "c", "e", "s", "s">>],
       [id |-> 2, name |-> <<"A", "n", "a", "l", "y", "s", "t", "s">>, description |-> <<"R", "e", "a", "d", "-", "o", "n", "l", "y", " ", "a", "c", "c", "e", "s", "s", " ", "t", "o", " ", "b", "u", "s", "i", "n", "e", "s", "s", " ", "d", "a", "t", "a">>],
       [id |-> 3, name |-> <<"V", "i", "e", "w", "e", "r", "s">>, description |-> <<"L", "i", "m", "i", "t", "e", "d", " ", "r", "e", "a", "d", " ", "a", "c", "c", "e", "s", "s">>] >>

InitialUsers ==
    << [id |-> 1, email |-> <<"a", "d", "m", "i", "n", "@", "e", "x", "a", "m", "p", "l", "e", ".", "c", "o", "m">>, is_active |-> TRUE,
        group_id |-> Some(1), group_name |-> Some(<<"A", "d", "m", "i", "n", "s">>)],
       [id |-> 2, email |-> <<"a", "n", "a", "l", "y", "s", "t", "@", "e", "x", "a", "m", "p", "l", "e", ".", "c", "o", "m">>, is_active |-> TRUE,
        group_id |-> Some(2), group_name |-> Some(<<"A", "n", "a", "l", "y", "s", "t", "s">>)],
       [id |-> 3, email |-> <<"u", "s", "e", "r", "@", "e", "x", "a", "m", "p", "l", "e", ".", "c", "o", "m">>, is_active |-> TRUE,
        group_id |-> Some(3), group_name |-> Some(<<"V", "i", "e", "w", "e", "r", "s">>)] >>

public == <<"p", "u", "b", "l", "i", "c">>
sales == <<"s", "a", "l", "e", "s">>
hr == <<"h", "r">>

InitialPermissions ==
    << [group_id |-> 1, schema_name |-> public, permission |-> PermissionLevel.WRITE],
       [group_id |-> 1, schema_name |-> sales, permission |-> PermissionLevel.WRITE],
       [group_id |-> 1, schema_name |-> hr, permission |-> PermissionLevel.WRITE],
       [group_id |-> 2, schema_name |-> public, permission |-> PermissionLevel.READ],
       [group_id |-> 2, schema_name |-> sales, permission |-> PermissionLevel.READ],
       [group_id |-> 3, schema_name |-> public, permission |-> PermissionLevel.READ] >>

(***************************************************************************)
(* The table contents.  Three fields of the generated rows come from       *)
(* Date.now() and Math.random(): they are inputs of the construction, and  *)
(* Init draws them from EnvSamples (one sample serves every row of a run). *)
(***************************************************************************)
EnvSamples ==
    { [timestamp |-> <<"2", "0", "2", "5", "-", "0", "1", "-", "1", "5", "T", "1", "0", ":", "0", "0", ":", "0", "0", ".", "0", "0", "0", "Z">>, amount |-> <<"5", "1", "2", ".", "3", "4">>, date |-> <<"2", "0", "2", "5", "-", "0", "1", "-", "1", "5">>],
      [timestamp |-> <<"2", "0", "2", "4", "-", "1", "2", "-", "3", "1", "T", "2", "3", ":", "0", "0", ":", "0", "0", ".", "0", "0", "0", "Z">>, amount |-> <<"7", ".", "5", "0">>, date |-> <<"2", "0", "2", "4", "-", "1", "2", "-", "3", "1">>] }

users_audit(env) ==
    [k \in 1..120 |->
        LET i == k - 1 IN
        << Field(<<"i", "d">>, Num(i + 1)),
           Field(<<"a", "c", "t", "i", "o", "n">>, Str(IF i % 2 = 0 THEN <<"L", "O", "G", "I", "N">> ELSE <<"L", "O", "G", "O", "U", "T">>)),
           Field(<<"u", "s", "e", "r", "_", "e", "m", "a", "i", "l">>, Str(<<"u", "s", "e", "r">> \o Digits(i % 10) \o <<"@", "e", "x", "a", "m", "p", "l", "e", ".", "c", "o", "m">>)),
           Field(<<"t", "i", "m", "e", "s", "t", "a", "m", "p">>, Str(env.timestamp)),
           Field(<<"i", "p", "_", "a", "d", "d", "r", "e", "s", "s">>, Str(<<"1", "9", "2", ".", "1", "6", "8", ".", "1", ".">> \o Digits(i % 255))) >>]

orders(env) ==
    [k \in 1..85 |->
        LET i == k - 1 IN
        << Field(<<"o", "r", "d", "e", "r", "_", "i", "d">>, Num(1000 + i)),
           Field(<<"c", "u", "s", "t", "o", "m", "e", "r">>, Str(<<"C", "u", "s", "t", "o", "m", "e", "r", " ">> \o Digits(i))),
           Field(<<"a", "m", "o", "u", "n", "t">>, Str(env.amount)),
           Field(<<"s", "t", "a", "t", "u", "s">>, Str(IF i % 5 = 0 THEN <<"C", "A", "N", "C", "E", "L", "L", "E", "D">> ELSE <<"C", "O", "M", "P", "L", "E", "T", "E", "D">>)),
           Field(<<"d", "a", "t", "e">>, Str(env.date)) >>]

employees ==
    << << Field(<<"i", "d">>, Num(1)), Field(<<"n", "a", "m", "e">>, Str(<<"J", "o", "h", "n", " ", "D", "o", "e">>)),
          Field(<<"r", "o", "l", "e">>, Str(<<"M", "a", "n", "a", "g", "e", "r">>)), Field(<<"s", "a", "l", "a", "r", "y">>, Num(80000)) >>,
       << Field(<<"i", "d">>, Num(2)), Field(<<"n", "a", "m", "e">>, Str(<<"J", "a", "n", "e", " ", "S", "m", "i", "t", "h">>)),
          Field(<<"r", "o", "l", "e">>, Str(<<"D", "e", "v", "e", "l", "o", "p", "e", "r">>)), Field(<<"s", "a", "l", "a", "r", "y">>, Num(75000)) >>,
       << Field(<<"i", "d">>, Num(3)), Field(<<"n", "a", "m", "e">>, Str(<<"B", "o", "b", " ", "J", "o", "h", "n", "s", "o", "n">>)),
          Field(<<"r", "o", "l", "e">>, Str(<<"D", "e", "s", "i", "g", "n", "e", "r">>)), Field(<<"s", "a", "l", "a", "r", "y">>, Num(70000)) >> >>

\* TABLES_DATA is an object: its entries [key, rows] in insertion order
InitialTables(env) ==
    << [key |-> <<"p", "u", "b", "l", "i", "c", ".", "u", "s", "e", "r", "s", "_", "a", "u", "d", "i", "t">>, rows |-> users_audit(env)],
       [key |-> <<"s", "a", "l", "e", "s", ".", "o", "r", "d", "e", "r", "s">>, rows |-> orders(env)],
       [key |-> <<"h", "r", ".", "e", "m", "p", "l", "o", "y", "e", "e", "s">>, rows |-> employees] >>

(***************************************************************************)
(* State.                                                                   *)
(*   MOCK_USERS, MOCK_PERMISSIONS, TABLES_DATA  the module-level stores     *)
(*   env      the Date.now()/Math.random() sample the tables were built of  *)
(*   timers   the calls waiting in delay(): setTimeout with one fixed       *)
(*            latency fires in the order the timers were set, and the rest  *)
(*            of each method runs without another await, so a call's body   *)
(*            is one step and bodies run in the order of the calls          *)
(*   history  the calls that have returned, oldest first, each with the     *)
(*            way its promise settled and the value it resolved to          *)
(*   browser  the state of the DataBrowser component with its props, or     *)
(*            undefined while no DataBrowser is mounted                     *)
(***************************************************************************)
VARIABLES MOCK_USERS, MOCK_PERMISSIONS, TABLES_DATA, env, timers, history, browser

vars == << MOCK_USERS, MOCK_PERMISSIONS, TABLES_DATA, env, timers, history, browser >>

Min(a, b) == IF a < b THEN a ELSE b
Max(a, b) == IF a > b THEN a ELSE b

\* the indices flagged in the boolean sequence hit
Matching(hit) == { i \in 1..Len(hit) : hit[i] }

SetMin(S) == CHOOSE x \in S : \A y \in S : x <= y

\* Array.prototype.find: the first element satisfying the predicate, or undefined;
\* hit[i] tells whether seq[i] satisfies it
find(seq, hit) ==
    IF Matching(hit) = {} THEN undefined ELSE Some(seq[SetMin(Matching(hit))])

\* Array.prototype.filter: the elements satisfying the predicate, in their order
\* (the k-th element of the result is the element at the k-th smallest index
\* flagged in keep)
filter(seq, keep) ==
    LET idx == Matching(keep)
        rank == [i \in idx |-> Cardinality({ j \in idx : j <= i })]
    IN  [k \in 1..Cardinality(idx) |-> seq[CHOOSE i \in idx : rank[i] = k]]

\* a number used as a condition: undefined and 0 are falsy
Falsy(opt) == opt = undefined \/ opt = Some(0)

(***************************************************************************)
(* MockDB: the permission functions.                                        *)
(***************************************************************************)
\* mutant: any permission other than READ grants, a missing record included
hasWritePermission_unlessRead(user, schemaName) ==
    IF Falsy(user.group_id) THEN FALSE
    ELSE LET Hit(p) == Some(p.group_id) = user.group_id /\ p.schema_name = schemaName
             perm == find(MOCK_PERMISSIONS,
                          [i \in 1..Len(MOCK_PERMISSIONS) |-> Hit(MOCK_PERMISSIONS[i])])
         IN  perm = undefined \/ perm[1].permission # PermissionLevel.READ

\* mutant: some record of the pair grants, not the first one
hasWritePermission_someRecord(user, schemaName) ==
    IF Falsy(user.group_id) THEN FALSE
    ELSE \E i \in 1..Len(MOCK_PERMISSIONS) :
            /\ Some(MOCK_PERMISSIONS[i].group_id) = user.group_id
            /\ MOCK_PERMISSIONS[i].schema_name = schemaName
            /\ MOCK_PERMISSIONS[i].permission
                   \in { PermissionLevel.WRITE, PermissionLevel.ADMIN }

\* mutant: only WRITE grants, ADMIN is forgotten
hasWritePermission_writeOnly(user, schemaName) ==
    IF Falsy(user.group_id) THEN FALSE
    ELSE LET Hit(p) == Some(p.group_id) = user.group_id /\ p.schema_name = schemaName
             perm == find(MOCK_PERMISSIONS,
                          [i \in 1..Len(MOCK_PERMISSIONS) |-> Hit(MOCK_PERMISSIONS[i])])
         IN  perm # undefined /\ perm[1].permission = PermissionLevel.WRITE

hasWritePermission(user, schemaName) ==
    IF Falsy(user.group_id) THEN FALSE
    ELSE LET Hit(p) == Some(p.group_id) = user.group_id /\ p.schema_name = schemaName
             perm == find(MOCK_PERMISSIONS,
                          [i \in 1..Len(MOCK_PERMISSIONS) |-> Hit(MOCK_PERMISSIONS[i])])
         IN  /\ perm # undefined
             /\ \/ perm[1].permission = PermissionLevel.WRITE
                \/ perm[1].permission = PermissionLevel.ADMIN

\* Array.from(new Set(seq)): the first occurrence of every element, in order
RECURSIVE distinct(_)
distinct(seq) ==
    IF Len(seq) = 0 THEN << >>
    ELSE LET init == distinct(SubSeq(seq, 1, Len(seq) - 1))
             last == seq[Len(seq)]
         IN  IF \E i \in 1..Len(init) : init[i] = last THEN init ELSE Append(init, last)

\* insert s into the sorted sequence seq, after the elements not greater than it
RECURSIVE insertSorted(_, _)
insertSorted(seq, s) ==
    IF Len(seq) = 0 THEN << s >>
    ELSE IF strLess(s, seq[1]) THEN << s >> \o seq
    ELSE << seq[1] >> \o insertSorted(Tail(seq), s)

\* mutant: the schemas are returned in the order of their records
sort_omitted(seq) == seq

\* Array.prototype.sort() without a comparator: ascending code-unit order
RECURSIVE sort(_)
sort(seq) ==
    IF Len(seq) = 0 THEN << >>
    ELSE insertSorted(sort(SubSeq(seq, 1, Len(seq) - 1)), seq[Len(seq)])

\* the body of getAccessibleSchemas after its delay
accessibleSchemas(user) ==
    IF Falsy(user.group_id) THEN << >>
    ELSE LET Mine(p) == Some(p.group_id) = user.group_id
             perms == filter(MOCK_PERMISSIONS,
                             [i \in 1..Len(MOCK_PERMISSIONS) |-> Mine(MOCK_PERMISSIONS[i])])
             schemas == distinct([i \in 1..Len(perms) |-> perms[i].schema_name])
         IN  sort(schemas)

(***************************************************************************)
(* MockDB: the table store and the query engine.                            *)
(***************************************************************************)
\* `${schemaName}.${tableName}`
fullKeyOf(schemaName, tableName) == schemaName \o <<".">> \o tableName

\* mutant: a read is served from the rows the service was constructed with
rowsAt_stale(tables, fullKey) ==
    LET Hit(e) == e.key = fullKey
        entry == find(InitialTables(env),
                      [i \in 1..Len(InitialTables(env)) |-> Hit(InitialTables(env)[i])])
    IN  IF entry = undefined THEN << >> ELSE entry[1].rows

\* TABLES_DATA[fullKey] || []
rowsAt(tables, fullKey) ==
    LET Hit(e) == e.key = fullKey
        entry == find(tables, [i \in 1..Len(tables) |-> Hit(tables[i])])
    IN  IF entry = undefined THEN << >> ELSE entry[1].rows

\* mutant: the new rows are pushed after the rows the key holds
storeRows_appended(tables, fullKey, newData) ==
    IF \E i \in 1..Len(tables) : tables[i].key = fullKey
    THEN [i \in 1..Len(tables) |->
            IF tables[i].key = fullKey
            THEN [key |-> fullKey, rows |-> tables[i].rows \o newData]
            ELSE tables[i]]
    ELSE Append(tables, [key |-> fullKey, rows |-> newData])

\* mutant: the rows are overwritten one by one and the write stops half way
storeRows_partial(tables, fullKey, newData) ==
    IF \E i \in 1..Len(tables) : tables[i].key = fullKey
    THEN [i \in 1..Len(tables) |->
            IF tables[i].key = fullKey
            THEN [key |-> fullKey,
                  rows |-> [k \in 1..Max(Len(newData), Len(tables[i].rows)) |->
                              IF k <= (Len(newData) + 1) \div 2 \/ k > Len(tables[i].rows)
                              THEN newData[k] ELSE tables[i].rows[k]]]
            ELSE tables[i]]
    ELSE Append(tables, [key |-> fullKey, rows |-> newData])

\* TABLES_DATA[fullKey] = newData: an existing key keeps its place, a new key is
\* added last
storeRows(tables, fullKey, newData) ==
    IF \E i \in 1..Len(tables) : tables[i].key = fullKey
    THEN [i \in 1..Len(tables) |->
            IF tables[i].key = fullKey THEN [key |-> fullKey, rows |-> newData]
            ELSE tables[i]]
    ELSE Append(tables, [key |-> fullKey, rows |-> newData])

\* mutant: the field values are compared as stored, only the filter is lower-cased
rowMatches_caseSensitive(row, lowerClause) ==
    \E f \in 1..Len(row) : includes(String(row[f].val), lowerClause)

\* Object.values(row).some(val => String(val).toLowerCase().includes(lowerClause))
rowMatches(row, lowerClause) ==
    \E f \in 1..Len(row) : includes(toLowerCase(String(row[f].val)), lowerClause)

\* the filter step of getData: skipped when whereClause is the empty string.
\* The try/catch around it acts only when Object.values throws, which it does
\* for an element that is null or undefined; a row is a sequence of fields.
filterRows(data, whereClause) ==
    IF Len(whereClause) = 0 THEN data
    ELSE LET lowerClause == toLowerCase(whereClause)
             Keep(row) == rowMatches(row, lowerClause)
         IN  filter(data, [i \in 1..Len(data) |-> Keep(data[i])])

\* mutant: the quotient is truncated
ceil_truncated(a, b) == a \div b

\* Math.ceil(a / b) for a >= 0 and b > 0
ceil(a, b) == IF a % b = 0 THEN a \div b ELSE (a \div b) + 1

\* mutant: the element at index end is part of the slice
slice_inclusive(seq, start, end) ==
    LET len == Len(seq)
        from == IF start < 0 THEN Max(len + start, 0) ELSE Min(start, len)
        to == IF end < 0 THEN Max(len + end + 1, 0) ELSE Min(end + 1, len)
    IN  IF from >= to THEN << >> ELSE SubSeq(seq, from + 1, to)

\* Array.prototype.slice(start, end): negative indices count from the end
slice(seq, start, end) ==
    LET len == Len(seq)
        from == IF start < 0 THEN Max(len + start, 0) ELSE Min(start, len)
        to == IF end < 0 THEN Max(len + end, 0) ELSE Min(end, len)
    IN  IF from >= to THEN << >> ELSE SubSeq(seq, from + 1, to)

\* the body of getData after its delay, on the rows loaded from the store
queryResult(rows, page, whereClause) ==
    LET data == filterRows(rows, whereClause)
        total_rows == Len(data)
        total_pages == ceil(total_rows, PAGE_SIZE)
        start == (page - 1) * PAGE_SIZE
        end == start + PAGE_SIZE
        slicedData == slice(data, start, end)
    IN  [data |-> slicedData,
         row_count |-> Len(slicedData),
         total_rows |-> total_rows,
         page |-> page,
         page_size |-> PAGE_SIZE,
         total_pages |-> total_pages]

\* the body of getTables after its delay
tablesOf(tables, schemaName) ==
    LET Mine(e) == startsWith(e.key, schemaName \o <<".">>)
        mine == filter(tables, [i \in 1..Len(tables) |-> Mine(tables[i])])
    IN  [i \in 1..Len(mine) |-> split(mine[i].key)[2]]

\* mutant: the columns are counted on the last row
tableInfo_lastRow(tables, schemaName, tableName) ==
    LET fullKey == fullKeyOf(schemaName, tableName)
        data == rowsAt(tables, fullKey)
    IN  [schema_name |-> schemaName,
         table_name |-> tableName,
         full_name |-> fullKey,
         row_count |-> Len(data),
         column_count |-> IF Len(data) > 0 THEN Len(data[Len(data)]) ELSE 0]

\* the body of getTableInfo after its delay
tableInfo(tables, schemaName, tableName) ==
    LET fullKey == fullKeyOf(schemaName, tableName)
        data == rowsAt(tables, fullKey)
    IN  [schema_name |-> schemaName,
         table_name |-> tableName,
         full_name |-> fullKey,
         row_count |-> Len(data),
         column_count |-> IF Len(data) > 0 THEN Len(data[1]) ELSE 0]

(***************************************************************************)
(* utils: the filter validator.                                             *)
(***************************************************************************)
FORBIDDEN_SQL_KEYWORDS ==
    << <<"D", "E", "L", "E", "T", "E">>, <<"U", "P", "D", "A", "T", "E">>, <<"I", "N", "S", "E", "R", "T">>, <<"D", "R", "O", "P">>,
       <<"A", "L", "T", "E", "R">>, <<"E", "X", "E", "C">>, <<"E", "X", "E", "C", "U", "T", "E">>,
       <<"C", "R", "E", "A", "T", "E">>, <<"T", "R", "U", "N", "C", "A", "T", "E">> >>

SQL_COMMENT_PATTERNS == << <<";">>, <<"-", "-">>, <<"/", "*">> >>

\* String.prototype.toUpperCase on one character: a-z map to A-Z
toUpperCaseChar[c \in Chars] ==
    IF charCode[c] >= 97 /\ charCode[c] <= 122 THEN Ascii[charCode[c] - 31 - 32] ELSE c

\* \w of a regular expression: letters, digits and the underscore
isWordChar(c) ==
    \/ charCode[c] >= 65 /\ charCode[c] <= 90
    \/ charCode[c] >= 97 /\ charCode[c] <= 122
    \/ charCode[c] >= 48 /\ charCode[c] <= 57
    \/ c = "_"

\* \b of a regular expression at the position after the first i characters of s:
\* exactly one of the characters on its two sides is a word character
wordBoundary(s, i) ==
    (i > 0 /\ isWordChar(s[i])) # (i < Len(s) /\ isWordChar(s[i + 1]))

\* mutant: the keyword is searched as a substring, without the \b assertions
regexTest_substring(keyword, clause) ==
    \E i \in 0..(Len(clause) - Len(keyword)) :
        \A m \in 1..Len(keyword) :
            toUpperCaseChar[clause[i + m]] = toUpperCaseChar[keyword[m]]

\* new RegExp(`\\b${keyword}\\b`, 'i').test(clause): with the i flag two
\* characters match when their upper-case forms are equal
regexTest(keyword, clause) ==
    \E i \in 0..(Len(clause) - Len(keyword)) :
        /\ wordBoundary(clause, i)
        /\ \A m \in 1..Len(keyword) :
              toUpperCaseChar[clause[i + m]] = toUpperCaseChar[keyword[m]]
        /\ wordBoundary(clause, i + Len(keyword))

commentError(pattern) ==
    <<"S", "Q", "L", " ", "I", "n", "j", "e", "c", "t", "i", "o", "n", " ", "a", "t", "t", "e", "m", "p", "t", " ", "d", "e", "t", "e", "c", "t", "e", "d", ":", " ", "c", "o", "m", "m", "e", "n", "t", " ", "p", "a", "t", "t", "e", "r", "n", " ", "'">>
    \o pattern \o <<"'">>

keywordError == <<"F", "o", "r", "b", "i", "d", "d", "e", "n", " ", "S", "Q", "L", " ", "k", "e", "y", "w", "o", "r", "d", " ", "d", "e", "t", "e", "c", "t", "e", "d", ".">>

\* mutant: the keywords are checked before the comment patterns
validateWhereClause_keywordsFirst(clause) ==
    IF Len(clause) = 0 THEN [isValid |-> TRUE, error |-> undefined]
    ELSE IF \E k \in 1..Len(FORBIDDEN_SQL_KEYWORDS) : regexTest(FORBIDDEN_SQL_KEYWORDS[k], clause)
    THEN [isValid |-> FALSE, error |-> Some(keywordError)]
    ELSE LET pattern == find(SQL_COMMENT_PATTERNS,
                             [i \in 1..Len(SQL_COMMENT_PATTERNS) |->
                                 includes(clause, SQL_COMMENT_PATTERNS[i])])
         IN  IF pattern # undefined
             THEN [isValid |-> FALSE, error |-> Some(commentError(pattern[1]))]
             ELSE [isValid |-> TRUE, error |-> undefined]

\* validateWhereClause: the first comment pattern of the list that the clause
\* includes is reported, then the keywords are tried (upperClause is never read)
validateWhereClause(clause) ==
    IF Len(clause) = 0 THEN [isValid |-> TRUE, error |-> undefined]
    ELSE LET pattern == find(SQL_COMMENT_PATTERNS,
                             [i \in 1..Len(SQL_COMMENT_PATTERNS) |->
                                 includes(clause, SQL_COMMENT_PATTERNS[i])])
         IN  IF pattern # undefined
             THEN [isValid |-> FALSE, error |-> Some(commentError(pattern[1]))]
             ELSE IF \E k \in 1..Len(FORBIDDEN_SQL_KEYWORDS) :
                        regexTest(FORBIDDEN_SQL_KEYWORDS[k], clause)
             THEN [isValid |-> FALSE, error |-> Some(keywordError)]
             ELSE [isValid |-> TRUE, error |-> undefined]

(***************************************************************************)
(* Calls.  A call is made by a caller (the session user of the presentation *)
(* layer; MockDB itself is never told who calls).  issuedAt is the number   *)
(* of calls that had returned when this one was made.                       *)
(***************************************************************************)
NoArg == << >>

CallOf(op, caller, schemaName, tableName, page, whereClause, newData) ==
    [op |-> op, caller |-> caller, schemaName |-> schemaName, tableName |-> tableName,
     page |-> page, whereClause |-> whereClause, newData |-> newData]

GetTables(caller, schemaName) ==
    CallOf("getTables", caller, schemaName, NoArg, 0, NoArg, NoArg)
GetTableInfo(caller, schemaName, tableName) ==
    CallOf("getTableInfo", caller, schemaName, tableName, 0, NoArg, NoArg)
GetData(caller, schemaName, tableName, page, whereClause) ==
    CallOf("getData", caller, schemaName, tableName, page, whereClause, NoArg)
UpdateData(caller, schemaName, tableName, newData) ==
    CallOf("updateData", caller, schemaName, tableName, 0, NoArg, newData)
GetAccessibleSchemas(user) ==
    CallOf("getAccessibleSchemas", user, NoArg, NoArg, 0, NoArg, NoArg)

\* calls made so far
ncalls == Len(timers) + Len(history)

\* a method is called: it runs up to `await this.delay()`
Call(c, maxCalls) ==
    /\ ncalls < maxCalls
    /\ Len(timers) < MaxInFlight
    /\ timers' = Append(timers, [call |-> c, issuedAt |-> Len(history)])
    /\ UNCHANGED << MOCK_USERS, MOCK_PERMISSIONS, TABLES_DATA, env, history, browser >>

\* the oldest timer fires and the method whose delay it ends resumes
Resumes(op) == Len(timers) > 0 /\ timers[1].call.op = op

\* the method returns: its promise is fulfilled with result (no method of MockDB
\* throws or rejects)
Returns(result) ==
    /\ history' = Append(history, [call |-> timers[1].call,
                                   issuedAt |-> timers[1].issuedAt,
                                   settled |-> "fulfilled",
                                   result |-> result])
    /\ timers' = Tail(timers)

getAccessibleSchemas ==
    /\ Resumes("getAccessibleSchemas")
    /\ Returns(accessibleSchemas(timers[1].call.caller))
    /\ UNCHANGED << MOCK_USERS, MOCK_PERMISSIONS, TABLES_DATA, env, browser >>

getTables ==
    /\ Resumes("getTables")
    /\ Returns(tablesOf(TABLES_DATA, timers[1].call.schemaName))
    /\ UNCHANGED << MOCK_USERS, MOCK_PERMISSIONS, TABLES_DATA, env, browser >>

getTableInfo ==
    /\ Resumes("getTableInfo")
    /\ Returns(tableInfo(TABLES_DATA, timers[1].call.schemaName, timers[1].call.tableName))
    /\ UNCHANGED << MOCK_USERS, MOCK_PERMISSIONS, TABLES_DATA, env, browser >>

getData ==
    /\ Resumes("getData")
    /\ LET c == timers[1].call
           fullKey == fullKeyOf(c.schemaName, c.tableName)
           data == rowsAt(TABLES_DATA, fullKey)
       IN  Returns(queryResult(data, c.page, c.whereClause))
    /\ UNCHANGED << MOCK_USERS, MOCK_PERMISSIONS, TABLES_DATA, env, browser >>

updateData ==
    /\ Resumes("updateData")
    /\ LET c == timers[1].call
           fullKey == fullKeyOf(c.schemaName, c.tableName)
       IN  TABLES_DATA' = storeRows(TABLES_DATA, fullKey, c.newData)
    /\ Returns(TRUE)
    /\ UNCHANGED << MOCK_USERS, MOCK_PERMISSIONS, env, browser >>

\* hasWritePermission is synchronous: it returns in the step it is called in
hasWritePermissionCall(user, schemaName, maxCalls) ==
    /\ ncalls < maxCalls
    /\ history' = Append(history,
            [call |-> CallOf("hasWritePermission", user, schemaName, NoArg, 0, NoArg, NoArg),
             issuedAt |-> Len(history),
             settled |-> "fulfilled",
             result |-> hasWritePermission(user, schemaName)])
    /\ UNCHANGED << MOCK_USERS, MOCK_PERMISSIONS, TABLES_DATA, env, timers, browser >>

\* validateWhereClause is synchronous: it returns in the step it is called in
validateWhereClauseCall(clause, maxCalls) ==
    /\ ncalls < maxCalls
    /\ history' = Append(history,
            [call |-> CallOf("validateWhereClause", NoArg, NoArg, NoArg, 0, clause, NoArg),
             issuedAt |-> Len(history),
             settled |-> "fulfilled",
             result |-> validateWhereClause(clause)])
    /\ UNCHANGED << MOCK_USERS, MOCK_PERMISSIONS, TABLES_DATA, env, timers, browser >>

(***************************************************************************)
(* MockDB: login and register.                                              *)
(***************************************************************************)
\* null, like undefined, is an absent value
null == << >>

\* a call of login or register
AuthCallOf(op, email, password, groupId) ==
    [op |-> op, email |-> email, password |-> password, groupId |-> groupId]

Login(email, password) == AuthCallOf("login", email, password, undefined)
Register(email, groupId) == AuthCallOf("register", email, NoArg, groupId)

\* mutant: the password is not looked at
loginResult_anyPassword(users, email, password) ==
    find(users, [i \in 1..Len(users) |-> users[i].email = email])

\* the body of login after its delay: the first user with the email, when the
\* password is the hardcoded one
loginResult(users, email, password) ==
    LET user == find(users, [i \in 1..Len(users) |-> users[i].email = email])
    IN  IF user # undefined /\ password = <<"p", "a", "s", "s", "w", "o", "r", "d">> THEN user ELSE null

\* mutant: the duplicate check is made before the delay, on the users stored
\* when the call was issued
emailTaken_whenIssued(users, email) ==
    \/ \E i \in 1..Len(InitialUsers) : InitialUsers[i].email = email
    \/ \E k \in 1..timers[1].issuedAt :
          /\ history[k].call.op = "register"
          /\ history[k].call.email = email
          /\ history[k].result = TRUE

\* mutant: no email is ever found
emailTaken_never(users, email) == FALSE

\* MOCK_USERS.find(u => u.email === email), as a condition
emailTaken(users, email) ==
    find(users, [i \in 1..Len(users) |-> users[i].email = email]) # undefined

\* mutant: the ids are counted from 0
nextId_fromZero(users) == Len(users)

\* MOCK_USERS.length + 1
nextId(users) == Len(users) + 1

\* mutant: the requested group waits for an approval and is not stored
newUser_ungrouped(users, email, groupId) ==
    [id |-> nextId(users), email |-> email, is_active |-> TRUE,
     group_id |-> undefined, group_name |-> undefined]

\* the user register pushes: the group id as requested, the name of the group
\* with that id when there is one (group?.name)
newUser(users, email, groupId) ==
    LET group == find(MOCK_GROUPS,
                      [i \in 1..Len(MOCK_GROUPS) |-> Some(MOCK_GROUPS[i].id) = groupId])
    IN  [id |-> nextId(users), email |-> email, is_active |-> TRUE,
         group_id |-> groupId,
         group_name |-> IF group = undefined THEN undefined ELSE Some(group[1].name)]

login ==
    /\ Resumes("login")
    /\ Returns(loginResult(MOCK_USERS, timers[1].call.email, timers[1].call.password))
    /\ UNCHANGED << MOCK_USERS, MOCK_PERMISSIONS, TABLES_DATA, env, browser >>

register ==
    /\ Resumes("register")
    /\ LET c == timers[1].call
       IN  IF emailTaken(MOCK_USERS, c.email)
           THEN /\ Returns(FALSE)
                /\ UNCHANGED MOCK_USERS
           ELSE /\ MOCK_USERS' = Append(MOCK_USERS, newUser(MOCK_USERS, c.email, c.groupId))
                /\ Returns(TRUE)
    /\ UNCHANGED << MOCK_PERMISSIONS, TABLES_DATA, env, browser >>

(***************************************************************************)
(* Inputs.                                                                  *)
(***************************************************************************)
admin == InitialUsers[1]
analyst == InitialUsers[2]
viewer == InitialUsers[3]
\* a registered user without a group (register called without a group id)
guest ==
    [id |-> 4, email |-> <<"g", "u", "e", "s", "t", "@", "e", "x", "a", "m", "p", "l", "e", ".", "c", "o", "m">>, is_active |-> TRUE,
     group_id |-> undefined, group_name |-> undefined]

\* n generated rows of two columns, told apart from other arguments by tag
newRows(n, tag) ==
    [k \in 1..n |-> << Field(<<"i", "d">>, Num(k)), Field(<<"l", "a", "b", "e", "l">>, Str(tag \o Digits(k))) >>]

rowsA == newRows(2, <<"a", "l", "p", "h", "a">>)
rowsB == newRows(51, <<"B", "e", "t", "a">>)

Callers == { admin, analyst, viewer, guest }

\* the calls of Spec: every method, made by callers of every kind
Calls ==
    { UpdateData(u, sales, <<"o", "r", "d", "e", "r", "s">>, rowsA) : u \in Callers }
    \cup { GetData(u, hr, <<"e", "m", "p", "l", "o", "y", "e", "e", "s">>, 1, << >>) : u \in { admin, analyst } }
    \cup { GetTables(u, hr) : u \in { admin, analyst } }
    \cup { GetTableInfo(u, hr, <<"e", "m", "p", "l", "o", "y", "e", "e", "s">>) : u \in { admin, analyst } }
    \cup { GetAccessibleSchemas(u) : u \in { analyst, guest } }

\* the calls of SpecData: writes and reads of an existing table and of a new one
DataCalls ==
    { UpdateData(admin, sales, <<"o", "r", "d", "e", "r", "s">>, rows) : rows \in { rowsA, rowsB } }
    \cup { GetData(admin, sales, <<"o", "r", "d", "e", "r", "s">>, 1, whereClause) : whereClause \in { << >>, <<"b", "e", "t", "a", "1">> } }
    \cup { UpdateData(admin, hr, <<"s", "t", "a", "f", "f">>, rowsB), GetData(admin, hr, <<"s", "t", "a", "f", "f">>, 1, << >>) }

\* the stores of SpecQuery: the constructed one, and it after one updateData of
\* sales.orders
QueryContents == { << >>, newRows(50, <<"R", "o", "w">>), newRows(100, <<"R", "o", "w">>), newRows(101, <<"R", "o", "w">>) }
QueryStores(e) ==
    { InitialTables(e) }
    \cup { storeRows(InitialTables(e), fullKeyOf(sales, <<"o", "r", "d", "e", "r", "s">>), rows) : rows \in QueryContents }

\* the calls of SpecQuery
QueryCalls ==
    { GetData(admin, t[1], t[2], page, whereClause) :
        t \in { << sales, <<"o", "r", "d", "e", "r", "s">> >>, << public, <<"u", "s", "e", "r", "s", "_", "a", "u", "d", "i", "t">> >> },
        page \in { 1, 2, 3 },
        whereClause \in { << >>, <<"L", "O", "G", "I", "N">>, <<"r", "o", "w", "1">>, <<"1", "0">> } }

\* the clauses of SpecFilter: every concatenation of at most MaxTokens tokens
\* (keywords, word characters, separators and the characters of the comment
\* patterns), and every keyword alone, inside a longer word and before a bracket
Tokens ==
    { <<"d", "r", "o", "p">>, <<"D", "R", "O", "P">>, <<"d", "o", "w", "n">>, <<"e", "x", "e", "c">>,
      <<"u", "t", "e">>, <<" ">>, <<"_">>, <<"1">>,
      <<";">>, <<"-">>, <<"/">>, <<"*">> }

RECURSIVE concat(_)
concat(parts) == IF Len(parts) = 0 THEN << >> ELSE parts[1] \o concat(Tail(parts))

KeywordClauses ==
    { <<"d", "e", "l", "e", "t", "e">>, <<"D", "e", "l", "e", "t", "e", "s">>, <<"u", "n", "d", "e", "l", "e", "t", "e">>, <<"D", "E", "L", "E", "T", "E", "(">>,
      <<"u", "p", "d", "a", "t", "e">>, <<"U", "p", "d", "a", "t", "e", "s">>, <<"u", "n", "u", "p", "d", "a", "t", "e">>, <<"U", "P", "D", "A", "T", "E", "(">>,
      <<"i", "n", "s", "e", "r", "t">>, <<"I", "n", "s", "e", "r", "t", "s">>, <<"u", "n", "i", "n", "s", "e", "r", "t">>, <<"I", "N", "S", "E", "R", "T", "(">>,
      <<"d", "r", "o", "p">>, <<"D", "r", "o", "p", "s">>, <<"u", "n", "d", "r", "o", "p">>, <<"D", "R", "O", "P", "(">>,
      <<"a", "l", "t", "e", "r">>, <<"A", "l", "t", "e", "r", "s">>, <<"u", "n", "a", "l", "t", "e", "r">>, <<"A", "L", "T", "E", "R", "(">>,
      <<"e", "x", "e", "c">>, <<"E", "x", "e", "c", "s">>, <<"u", "n", "e", "x", "e", "c">>, <<"E", "X", "E", "C", "(">>,
      <<"e", "x", "e", "c", "u", "t", "e">>, <<"E", "x", "e", "c", "u", "t", "e", "s">>, <<"u", "n", "e", "x", "e", "c", "u", "t", "e">>, <<"E", "X", "E", "C", "U", "T", "E", "(">>,
      <<"c", "r", "e", "a", "t", "e">>, <<"C", "r", "e", "a", "t", "e", "s">>, <<"u", "n", "c", "r", "e", "a", "t", "e">>, <<"C", "R", "E", "A", "T", "E", "(">>,
      <<"t", "r", "u", "n", "c", "a", "t", "e">>, <<"T", "r", "u", "n", "c", "a", "t", "e", "s">>, <<"u", "n", "t", "r", "u", "n", "c", "a", "t", "e">>, <<"T", "R", "U", "N", "C", "A", "T", "E", "(">> }

Clauses ==
    { concat(parts) : parts \in UNION { [1..n -> Tokens] : n \in 0..MaxTokens } }
    \cup KeywordClauses

\* the DataBrowser of SpecBrowser: its user, the tables its props name and the
\* texts typed into the filter field
BrowserUser == admin
BrowserTables ==
    { << sales, <<"o", "r", "d", "e", "r", "s">> >>, << public, <<"u", "s", "e", "r", "s", "_", "a", "u", "d", "i", "t">> >> }
FilterTexts == { << >>, <<"L", "O", "G", "I", "N">>, <<"d", "r", "o", "p">> }

\* the calls of SpecAuth: a new email registered into an existing group, into
\* group 0 and into a group that does not exist; a stored email registered
\* again; logins with stored, new and differently cased emails and with the
\* right and a wrong password
newEmail == <<"a", "@", "x", ".", "c", "o", "m">>
AuthCalls ==
    { Register(newEmail, groupId) : groupId \in { Some(0), Some(1), Some(9) } }
    \cup { Register(admin.email, Some(1)) }
    \cup { Login(email, <<"p", "a", "s", "s", "w", "o", "r", "d">>) :
             email \in { newEmail, admin.email, <<"A", "d", "m", "i", "n", "@", "e", "x", "a", "m", "p", "l", "e", ".", "c", "o", "m">> } }
    \cup { Login(admin.email, <<"P", "a", "s", "s", "w", "o", "r", "d">>) }

\* the stores of SpecInfo: those of SpecQuery, and one whose sales.orders holds
\* rows of different shapes
raggedRows ==
    << << Field(<<"i", "d">>, Num(1)), Field(<<"l", "a", "b", "e", "l">>, Str(<<"o", "n", "e">>)), Field(<<"n", "o", "t", "e">>, Str(<<"f", "i", "r", "s", "t">>)) >>,
       << Field(<<"i", "d">>, Num(2)) >> >>
InfoStores(e) ==
    QueryStores(e)
    \cup { storeRows(InitialTables(e), fullKeyOf(sales, <<"o", "r", "d", "e", "r", "s">>), raggedRows) }

\* the calls of SpecInfo: tables that exist and tables that do not
InfoCalls ==
    { GetTableInfo(admin, t[1], t[2]) :
        t \in { << sales, <<"o", "r", "d", "e", "r", "s">> >>, << public, <<"u", "s", "e", "r", "s", "_", "a", "u", "d", "i", "t">> >>, << hr, <<"e", "m", "p", "l", "o", "y", "e", "e", "s">> >>,
               << hr, <<"s", "t", "a", "f", "f">> >>, << sales, <<"r", "e", "t", "u", "r", "n", "s">> >> } }

\* the calls of SpecNames: a table whose name contains a dot is written in
\* schema hr, and the tables of hr and of a schema named hr.x are listed and read
dottedTable == <<"x", ".", "y">>
dottedSchema == <<"h", "r", ".", "x">>
NameCalls ==
    { UpdateData(admin, hr, tableName, rowsA) :
        tableName \in { dottedTable, <<"s", "t", "a", "f", "f">> } }
    \cup { GetTables(admin, schemaName) : schemaName \in { hr, dottedSchema } }
    \cup { GetData(admin, dottedSchema, <<"y">>, 1, << >>),
           GetTableInfo(admin, dottedSchema, <<"y">>) }

\* the permission sets of SpecPerm: every sequence of at most MaxPerms records
PermGroups == { 1, 2 }
PermSchemas == { hr, public, sales }
PermLevels == { PermissionLevel.READ, PermissionLevel.WRITE, PermissionLevel.ADMIN }
PermRecords == [group_id : PermGroups, schema_name : PermSchemas, permission : PermLevels]
PermissionSets == UNION { [1..n -> PermRecords] : n \in 0..MaxPerms }

(***************************************************************************)
(* DataBrowser.  browser holds the props and the useState values of the     *)
(* component; event is the handler that ran last.  A handler's step runs    *)
(* the handler, the render that follows it and the effects of that render:  *)
(* the effect on [loadData] calls loadData when schemaName, tableName, page *)
(* or appliedFilter changed.  loadData runs up to its first await in that   *)
(* step, with the values of the render that created it.                     *)
(***************************************************************************)
DataBrowser(schemaName, tableName) ==
    [schemaName |-> schemaName, tableName |-> tableName,
     data |-> undefined, loading |-> FALSE, error |-> undefined,
     filter |-> << >>, appliedFilter |-> << >>, page |-> 1,
     tableInfo |-> undefined, event |-> "mount"]

\* the dependencies of the loadData callback of a render
loadDataOf(b) ==
    [schemaName |-> b.schemaName, tableName |-> b.tableName,
     page |-> b.page, appliedFilter |-> b.appliedFilter]

\* loadData up to `await db.getTableInfo(...)`: the call waits in delay()
awaitGetTableInfo(load) ==
    [call |-> GetTableInfo(BrowserUser, load.schemaName, load.tableName),
     issuedAt |-> Len(history), loadData |-> load]

\* loadData up to `await db.getData(...)`
awaitGetData(load) ==
    [call |-> GetData(BrowserUser, load.schemaName, load.tableName, load.page, load.appliedFilter),
     issuedAt |-> Len(history), loadData |-> load]

\* the state changes loadData makes before its first await
loading(b) == [b EXCEPT !.loading = TRUE, !.error = undefined]

\* the component shows its controls (it shows a spinner while loading && !data)
Rendered == browser # undefined /\ ~(browser.loading /\ browser.data = undefined)

\* the pagination bar is shown
Paginated == Rendered /\ browser.data # undefined /\ browser.data[1].total_rows > 0

\* a handler left the state b: the render and its effects follow
Handled(b, event) ==
    /\ IF loadDataOf(b) # loadDataOf(browser)
       THEN /\ browser' = [loading(b) EXCEPT !.event = event]
            /\ timers' = Append(timers, awaitGetTableInfo(loadDataOf(b)))
       ELSE /\ browser' = [b EXCEPT !.event = event]
            /\ timers' = timers
    /\ Len(timers') <= MaxInFlight
    /\ UNCHANGED << MOCK_USERS, MOCK_PERMISSIONS, TABLES_DATA, env, history >>

\* onChange of the filter field
setFilter(text) ==
    /\ Rendered
    /\ Handled([browser EXCEPT !.filter = text], "setFilter")

\* mutant: the filter is applied without being validated
applyFilter_unchecked(b) ==
    [b EXCEPT !.appliedFilter = b.filter, !.page = 1, !.error = undefined]

\* the state handleApplyFilter leaves
applyFilter(b) ==
    LET validation == validateWhereClause(b.filter)
    IN  IF ~validation.isValid
        THEN [b EXCEPT !.error = validation.error]
        ELSE [b EXCEPT !.appliedFilter = b.filter, !.page = 1, !.error = undefined]

handleApplyFilter ==
    /\ Rendered
    /\ Handled(applyFilter(browser), "handleApplyFilter")

handleClearFilter ==
    /\ Rendered
    /\ Handled([browser EXCEPT !.filter = << >>, !.appliedFilter = << >>,
                               !.page = 1, !.error = undefined], "handleClearFilter")

\* the four pagination buttons; the first two are disabled on page 1, the last
\* two when page >= data.total_pages
setPage ==
    /\ Paginated
    /\ \E page \in
            (IF browser.page = 1 THEN { } ELSE { 1, browser.page - 1 })
            \cup (IF browser.page >= browser.data[1].total_pages THEN { }
                  ELSE { browser.page + 1, browser.data[1].total_pages }) :
          Handled([browser EXCEPT !.page = page], "setPage")

\* the Reload button calls loadData
reload ==
    /\ Rendered
    /\ browser' = [loading(browser) EXCEPT !.event = "reload"]
    /\ timers' = Append(timers, awaitGetTableInfo(loadDataOf(browser)))
    /\ Len(timers') <= MaxInFlight
    /\ UNCHANGED << MOCK_USERS, MOCK_PERMISSIONS, TABLES_DATA, env, history >>

\* the Dashboard passes other props: the component renders with the new props
\* and its old state, the effect on [schemaName, tableName] resets page, filter
\* and appliedFilter, and the effect on [loadData] calls the loadData of that
\* render; the render after the reset calls loadData again when it changed
setProps(schemaName, tableName) ==
    /\ browser # undefined
    /\ << schemaName, tableName >> # << browser.schemaName, browser.tableName >>
    /\ LET first == [browser EXCEPT !.schemaName = schemaName, !.tableName = tableName]
           second == [loading(first) EXCEPT !.page = 1, !.filter = << >>, !.appliedFilter = << >>]
       IN  /\ browser' = [second EXCEPT !.event = "setProps"]
           /\ timers' = timers \o << awaitGetTableInfo(loadDataOf(first)) >>
                   \o (IF loadDataOf(second) # loadDataOf(first)
                       THEN << awaitGetTableInfo(loadDataOf(second)) >> ELSE << >>)
    /\ Len(timers') <= MaxInFlight
    /\ UNCHANGED << MOCK_USERS, MOCK_PERMISSIONS, TABLES_DATA, env, history >>

\* db.getTableInfo returns to loadData: setTableInfo(info), then db.getData is
\* called with the page and the applied filter of loadData's render
loadData_getTableInfo ==
    /\ browser # undefined
    /\ Resumes("getTableInfo")
    /\ LET load == timers[1].loadData
       IN  /\ browser' = [browser EXCEPT
                  !.tableInfo = Some(tableInfo(TABLES_DATA, load.schemaName, load.tableName)),
                  !.event = "loadData"]
           /\ timers' = Append(Tail(timers), awaitGetData(load))
    /\ UNCHANGED << MOCK_USERS, MOCK_PERMISSIONS, TABLES_DATA, env, history >>

\* db.getData returns to loadData: setData(result), and setLoading(false)
loadData_getData ==
    /\ browser # undefined
    /\ Resumes("getData")
    /\ LET c == timers[1].call
           rows == rowsAt(TABLES_DATA, fullKeyOf(c.schemaName, c.tableName))
       IN  browser' = [browser EXCEPT
                  !.data = Some(queryResult(rows, c.page, c.whereClause)),
                  !.loading = FALSE,
                  !.event = "loadData"]
    /\ timers' = Tail(timers)
    /\ UNCHANGED << MOCK_USERS, MOCK_PERMISSIONS, TABLES_DATA, env, history >>

(***************************************************************************)
(* The service once constructed, and its steps.                             *)
(***************************************************************************)
InitWith(e, permissions, tables) ==
    /\ MOCK_USERS = InitialUsers
    /\ MOCK_PERMISSIONS = permissions
    /\ TABLES_DATA = tables
    /\ env = e
    /\ timers = << >>
    /\ history = << >>
    /\ browser = undefined

Init == \E e \in EnvSamples : InitWith(e, InitialPermissions, InitialTables(e))

Resume ==
    \/ getAccessibleSchemas
    \/ getTables
    \/ getTableInfo
    \/ getData
    \/ updateData

Next ==
    \/ \E c \in Calls : Call(c, MaxCalls)
    \/ \E u \in Callers : hasWritePermissionCall(u, sales, MaxCalls)
    \/ Resume

Spec == Init /\ [][Next]_vars

\* the table store under concurrent reads and writes
NextData ==
    \/ \E c \in DataCalls : Call(c, MaxDataCalls)
    \/ getData
    \/ updateData

SpecData == Init /\ [][NextData]_vars

\* the query engine applied once to every store of QueryStores
InitQuery ==
    \E e \in EnvSamples : \E tables \in QueryStores(e) :
        InitWith(e, InitialPermissions, tables)

NextQuery ==
    \/ \E c \in QueryCalls : Call(c, 1)
    \/ getData

SpecQuery == InitQuery /\ [][NextQuery]_vars

\* the permission functions applied once to every permission set; the tables
\* play no part in them and start empty
InitPerm ==
    \E permissions \in PermissionSets :
        InitWith(CHOOSE e \in EnvSamples : TRUE, permissions, << >>)

NextPerm ==
    \/ \E u \in Callers, schemaName \in PermSchemas : hasWritePermissionCall(u, schemaName, 1)
    \/ \E u \in Callers : Call(GetAccessibleSchemas(u), 1)
    \/ getAccessibleSchemas

SpecPerm == InitPerm /\ [][NextPerm]_vars

\* a permission set with at most one record for a (group_id, schema_name) pair,
\* as MOCK_PERMISSIONS is
OneRecordPerPair(permissions) ==
    \A i, j \in 1..Len(permissions) :
        /\ permissions[i].group_id = permissions[j].group_id
        /\ permissions[i].schema_name = permissions[j].schema_name
        => i = j

InitGrants ==
    \E permissions \in { p \in PermissionSets : OneRecordPerPair(p) } :
        InitWith(CHOOSE e \in EnvSamples : TRUE, permissions, << >>)

SpecGrants == InitGrants /\ [][NextPerm]_vars

\* the filter validator applied once to every clause of Clauses
InitFilter == InitWith(CHOOSE e \in EnvSamples : TRUE, InitialPermissions, << >>)

NextFilter ==
    /\ ncalls < 1
    /\ \E clause \in Clauses : validateWhereClauseCall(clause, 1)

SpecFilter == InitFilter /\ [][NextFilter]_vars

\* a DataBrowser mounted on a table: its first render calls loadData
InitBrowser ==
    \E t \in BrowserTables :
      LET e == CHOOSE sample \in EnvSamples : TRUE IN
        /\ MOCK_USERS = InitialUsers
        /\ MOCK_PERMISSIONS = InitialPermissions
        /\ TABLES_DATA = InitialTables(e)
        /\ env = e
        /\ history = << >>
        /\ browser = loading(DataBrowser(t[1], t[2]))
        /\ timers = << awaitGetTableInfo(loadDataOf(DataBrowser(t[1], t[2]))) >>

NextBrowser ==
    \/ \E text \in FilterTexts : setFilter(text)
    \/ handleApplyFilter
    \/ handleClearFilter
    \/ setPage
    \/ reload
    \/ \E t \in BrowserTables : setProps(t[1], t[2])
    \/ loadData_getTableInfo
    \/ loadData_getData

SpecBrowser == InitBrowser /\ [][NextBrowser]_vars

\* the identity directory under concurrent logins and registrations
NextAuth ==
    \/ \E c \in AuthCalls : Call(c, MaxAuthCalls)
    \/ login
    \/ register

InitAuth ==
    LET e == CHOOSE sample \in EnvSamples : TRUE
    IN  InitWith(e, InitialPermissions, InitialTables(e))

SpecAuth == InitAuth /\ [][NextAuth]_vars

\* getTableInfo applied once to every store of InfoStores
InitInfo ==
    \E e \in EnvSamples : \E tables \in InfoStores(e) :
        InitWith(e, InitialPermissions, tables)

NextInfo ==
    \/ \E c \in InfoCalls : Call(c, 1)
    \/ getTableInfo

SpecInfo == InitInfo /\ [][NextInfo]_vars

\* the table store written and read under names that contain dots
NextNames ==
    \/ \E c \in NameCalls : Call(c, MaxNameCalls)
    \/ updateData
    \/ getTables
    \/ getData
    \/ getTableInfo

SpecNames == Init /\ [][NextNames]_vars

(***************************************************************************)
(* The access rules of the specification, in terms of the code's            *)
(* functions: CanRead(user, schema) holds iff getAccessibleSchemas(user)    *)
(* contains schema, CanWrite is hasWritePermission.                         *)
(***************************************************************************)
Elements(seq) == { seq[i] : i \in 1..Len(seq) }

CanRead(user, schemaName) == schemaName \in Elements(accessibleSchemas(user))
CanWrite(user, schemaName) == hasWritePermission(user, schemaName)

Last == history[Len(history)]

\* the permission records of the user's group for the schema, by index
RecordsFor(user, schemaName) ==
    { i \in 1..Len(MOCK_PERMISSIONS) :
        /\ Some(MOCK_PERMISSIONS[i].group_id) = user.group_id
        /\ MOCK_PERMISSIONS[i].schema_name = schemaName }

Writes == { "updateData" }
Reads == { "getTables", "getTableInfo", "getData" }

(***************************************************************************)
(* C1.  Replace changes the stored rows of schema.table only when          *)
(* CanWrite(user, schema) holds: a call by a user without write permission  *)
(* fails (its promise is not fulfilled), and as long as no user with write  *)
(* permission has replaced a table the store holds the rows it was          *)
(* constructed with.                                                        *)
(***************************************************************************)
C1_ReplaceRequiresCanWrite ==
    /\ \A i \in 1..Len(history) :
          /\ history[i].call.op \in Writes
          /\ ~CanWrite(history[i].call.caller, history[i].call.schemaName)
          => history[i].settled # "fulfilled"
    /\ (\A i \in 1..Len(history) :
          history[i].call.op \in Writes
          => ~CanWrite(history[i].call.caller, history[i].call.schemaName))
       => TABLES_DATA = InitialTables(env)

(***************************************************************************)
(* C2.  ListTables, GetTableInfo and Query return a result about a schema   *)
(* only to a caller for whom CanRead holds: a call by any other caller      *)
(* fails (its promise is not fulfilled).                                    *)
(***************************************************************************)
C2_ReadsRequireCanRead ==
    \A i \in 1..Len(history) :
        /\ history[i].call.op \in Reads
        /\ ~CanRead(history[i].call.caller, history[i].call.schemaName)
        => history[i].settled # "fulfilled"

(***************************************************************************)
(* C3.  Fail-closed: when no permission record exists for the user's group  *)
(* and the schema (a user without a group has none), hasWritePermission     *)
(* answers false and getAccessibleSchemas does not list the schema.         *)
(***************************************************************************)
C3_FailClosed ==
    Len(history) > 0 =>
        /\ ( /\ Last.call.op = "hasWritePermission"
             /\ RecordsFor(Last.call.caller, Last.call.schemaName) = {} )
           => Last.result = FALSE
        /\ Last.call.op = "getAccessibleSchemas"
           => \A schemaName \in PermSchemas :
                 RecordsFor(Last.call.caller, schemaName) = {}
                 => schemaName \notin Elements(Last.result)

\* a user with a group was refused a schema that another group may write, and
\* was listed other schemas but not that one
C3_Witness ==
    /\ Len(history) > 0
    /\ Last.call.op = "getAccessibleSchemas"
    /\ Last.call.caller.group_id # undefined
    /\ Len(Last.result) > 0
    /\ \E schemaName \in PermSchemas :
          /\ RecordsFor(Last.call.caller, schemaName) = {}
          /\ schemaName \notin Elements(Last.result)
          /\ \E i \in 1..Len(MOCK_PERMISSIONS) :
                /\ MOCK_PERMISSIONS[i].schema_name = schemaName
                /\ MOCK_PERMISSIONS[i].permission = PermissionLevel.WRITE

(***************************************************************************)
(* C4.  hasWritePermission(user, schema) is true iff the user has a group   *)
(* and the first record, in storage order, of that group and schema has     *)
(* level WRITE or ADMIN; later records of the same pair change nothing.     *)
(***************************************************************************)
C4_FirstRecordGoverns ==
    ( /\ Len(history) > 0
      /\ Last.call.op = "hasWritePermission" )
    => Last.result =
          ( /\ Last.call.caller.group_id # undefined
            /\ \E i \in RecordsFor(Last.call.caller, Last.call.schemaName) :
                  /\ \A j \in RecordsFor(Last.call.caller, Last.call.schemaName) : i <= j
                  /\ MOCK_PERMISSIONS[i].permission
                        \in { PermissionLevel.WRITE, PermissionLevel.ADMIN } )

\* the answer went against a later record of the same pair
C4_Witness ==
    /\ Len(history) > 0
    /\ Last.call.op = "hasWritePermission"
    /\ Last.result = FALSE
    /\ \E i, j \in RecordsFor(Last.call.caller, Last.call.schemaName) :
          /\ i < j
          /\ MOCK_PERMISSIONS[i].permission = PermissionLevel.READ
          /\ MOCK_PERMISSIONS[j].permission = PermissionLevel.ADMIN

(***************************************************************************)
(* C5.  For every permission record and every user of the record's group,   *)
(* hasWritePermission(user, record's schema) is true when the record's      *)
(* level is WRITE or ADMIN and false when it is READ.                       *)
(***************************************************************************)
C5_LevelsDecideWrite ==
    ( /\ Len(history) > 0
      /\ Last.call.op = "hasWritePermission" )
    => \A i \in RecordsFor(Last.call.caller, Last.call.schemaName) :
          /\ MOCK_PERMISSIONS[i].permission
                \in { PermissionLevel.WRITE, PermissionLevel.ADMIN }
             => Last.result = TRUE
          /\ MOCK_PERMISSIONS[i].permission = PermissionLevel.READ
             => Last.result = FALSE

\* an ADMIN record let its group write
C5_Witness ==
    /\ Len(history) > 0
    /\ Last.call.op = "hasWritePermission"
    /\ Last.result = TRUE
    /\ \E i \in RecordsFor(Last.call.caller, Last.call.schemaName) :
          MOCK_PERMISSIONS[i].permission = PermissionLevel.ADMIN

(***************************************************************************)
(* C6.  getAccessibleSchemas(user) is empty for a user without a group;     *)
(* otherwise it lists exactly the schema names of the records of the user's *)
(* group, whatever their level, in strictly ascending lexicographic order   *)
(* (so no name is repeated).                                                *)
(***************************************************************************)
\* a is before b in lexicographic order of code units
LexLess(a, b) ==
    \E k \in 1..(Len(b)) :
        /\ k <= Len(a) + 1
        /\ \A m \in 1..(k - 1) : a[m] = b[m]
        /\ (k = Len(a) + 1 \/ charCode[a[k]] < charCode[b[k]])

C6_AccessibleSchemas ==
    ( /\ Len(history) > 0
      /\ Last.call.op = "getAccessibleSchemas" )
    => IF Last.call.caller.group_id = undefined
       THEN Last.result = << >>
       ELSE /\ Elements(Last.result) =
                  { MOCK_PERMISSIONS[i].schema_name :
                      i \in { j \in 1..Len(MOCK_PERMISSIONS) :
                                Some(MOCK_PERMISSIONS[j].group_id) = Last.call.caller.group_id } }
            /\ \A i, j \in 1..Len(Last.result) :
                  i < j => LexLess(Last.result[i], Last.result[j])

\* records stored out of order, one schema twice, a READ record among them
C6_Witness ==
    /\ Len(history) > 0
    /\ Last.call.op = "getAccessibleSchemas"
    /\ Len(Last.result) = 2
    /\ Len(MOCK_PERMISSIONS) = 3
    /\ \A i \in 1..3 : Some(MOCK_PERMISSIONS[i].group_id) = Last.call.caller.group_id
    /\ MOCK_PERMISSIONS[1].schema_name = sales
    /\ MOCK_PERMISSIONS[2].schema_name = hr
    /\ MOCK_PERMISSIONS[3].schema_name = sales
    /\ MOCK_PERMISSIONS[2].permission = PermissionLevel.READ

(***************************************************************************)
(* C7.  Round trip: when updateData(schema, table, rows) returns and the    *)
(* next call to return is getData(schema, table, 1) without a filter, its   *)
(* result holds the first 50 rows of rows (all of them if fewer), in order, *)
(* and total_rows is the length of rows.                                    *)
(***************************************************************************)
SameTable(c, d) == c.schemaName = d.schemaName /\ c.tableName = d.tableName

C7_RoundTrip ==
    \A i \in 2..Len(history) :
        ( /\ history[i - 1].call.op = "updateData"
          /\ history[i].call.op = "getData"
          /\ SameTable(history[i - 1].call, history[i].call)
          /\ history[i].call.page = 1
          /\ history[i].call.whereClause = << >> )
        => /\ history[i].result.data =
                 SubSeq(history[i - 1].call.newData, 1,
                        Min(50, Len(history[i - 1].call.newData)))
           /\ history[i].result.total_rows = Len(history[i - 1].call.newData)

\* 51 rows were written over the 85 constructed ones and the first 50 read back
C7_Witness ==
    \E i \in 2..Len(history) :
        /\ history[i - 1].call.op = "updateData"
        /\ history[i].call.op = "getData"
        /\ SameTable(history[i - 1].call, history[i].call)
        /\ history[i].call.page = 1
        /\ history[i].call.whereClause = << >>
        /\ Len(history[i - 1].call.newData) = 51
        /\ history[i].result.row_count = 50
        /\ history[i].result.total_rows = 51

(***************************************************************************)
(* C8.  Per-table linearizability: a getData on table T that was called     *)
(* after an updateData(T, rows) had returned, no later updateData on T      *)
(* having returned before the getData did, computes its result from rows.   *)
(***************************************************************************)
\* the updateData calls on the table of call c that returned before the last call
WritesBeforeLast(c) ==
    { i \in 1..(Len(history) - 1) :
        history[i].call.op = "updateData" /\ SameTable(history[i].call, c) }

SetMax(S) == CHOOSE x \in S : \A y \in S : y <= x

C8_ReplaceVisible ==
    ( /\ Len(history) > 0
      /\ Last.call.op = "getData"
      /\ WritesBeforeLast(Last.call) # {}
      /\ SetMax(WritesBeforeLast(Last.call)) <= Last.issuedAt )
    => Last.result =
          queryResult(history[SetMax(WritesBeforeLast(Last.call))].call.newData,
                      Last.call.page, Last.call.whereClause)

\* a read called after a write of 2 rows over the 85 constructed ones had
\* returned saw the 2 rows, while another write to the table was in flight
C8_Witness ==
    /\ Len(history) > 0
    /\ Last.call.op = "getData"
    /\ WritesBeforeLast(Last.call) # {}
    /\ SetMax(WritesBeforeLast(Last.call)) <= Last.issuedAt
    /\ Last.call.whereClause = << >>
    /\ Last.result.total_rows = 2
    /\ Len(rowsAt(InitialTables(env), fullKeyOf(Last.call.schemaName, Last.call.tableName))) = 85
    /\ \E t \in 1..Len(timers) :
          timers[t].call.op = "updateData" /\ SameTable(timers[t].call, Last.call)

(***************************************************************************)
(* C9.  Every getData result is the filter-and-slice of one whole row       *)
(* sequence: the rows the table was constructed with, or the whole argument *)
(* of one updateData call on the table; never a mixture.                    *)
(***************************************************************************)
\* the row sequences table c.schemaName.c.tableName was ever meant to hold
WholeSequences(c) ==
    { rowsAt(InitialTables(env), fullKeyOf(c.schemaName, c.tableName)) }
    \cup { history[i].call.newData :
             i \in { j \in 1..Len(history) :
                       history[j].call.op = "updateData" /\ SameTable(history[j].call, c) } }
    \cup { timers[i].call.newData :
             i \in { j \in 1..Len(timers) :
                       timers[j].call.op = "updateData" /\ SameTable(timers[j].call, c) } }

C9_WholeSequences ==
    ( /\ Len(history) > 0
      /\ Last.call.op = "getData" )
    => \E rows \in WholeSequences(Last.call) :
          Last.result = queryResult(rows, Last.call.page, Last.call.whereClause)

\* two writes of different rows to one table overlapped, and a read of the
\* table that was called while the second was in flight returned after it
C9_Witness ==
    /\ Len(history) > 2
    /\ Last.call.op = "getData"
    /\ Last.result.row_count > 0
    /\ \E i, j \in 1..(Len(history) - 1) :
          /\ i < j
          /\ history[i].call.op = "updateData"
          /\ history[j].call.op = "updateData"
          /\ SameTable(history[i].call, Last.call)
          /\ SameTable(history[j].call, Last.call)
          /\ history[i].call.newData # history[j].call.newData
          /\ history[j].issuedAt < i
          /\ Last.issuedAt < j

(***************************************************************************)
(* C10.  In every getData result total_rows is the number of rows left      *)
(* after filtering, page_size is 50, total_pages is ceil(total_rows / 50)   *)
(* (the least n with 50 * n >= total_rows), and total_pages is 0 exactly    *)
(* when total_rows is 0.                                                    *)
(***************************************************************************)
\* the number of stored rows the call's filter keeps
KeptCount(c) ==
    LET rows == rowsAt(TABLES_DATA, fullKeyOf(c.schemaName, c.tableName))
    IN  IF c.whereClause = << >> THEN Len(rows)
        ELSE Cardinality({ i \in 1..Len(rows) :
                \E f \in 1..Len(rows[i]) :
                    includes(toLowerCase(String(rows[i][f].val)), toLowerCase(c.whereClause)) })

C10_PageCount ==
    ( /\ Len(history) > 0
      /\ Last.call.op = "getData" )
    => /\ Last.result.total_rows = KeptCount(Last.call)
       /\ Last.result.page_size = 50
       /\ Last.result.total_pages >= 0
       /\ 50 * Last.result.total_pages >= Last.result.total_rows
       /\ 50 * (Last.result.total_pages - 1) < Last.result.total_rows
       /\ (Last.result.total_pages = 0) <=> (Last.result.total_rows = 0)

\* a filter kept 60 of 120 rows: two pages
C10_Witness ==
    /\ Len(history) > 0
    /\ Last.call.op = "getData"
    /\ Last.call.whereClause # << >>
    /\ Last.result.total_rows = 60
    /\ Last.result.total_pages = 2
    /\ Len(rowsAt(TABLES_DATA, fullKeyOf(Last.call.schemaName, Last.call.tableName))) = 120

(***************************************************************************)
(* C11.  For every page >= 1 the rows getData returns are the elements of   *)
(* the filtered row sequence at (0-based) indices (page-1)*50 up to but     *)
(* excluding page*50, as many as exist; row_count is their number and at    *)
(* most 50; a page greater than total_pages gives no rows, row_count 0 and  *)
(* the total_rows of every other page.                                      *)
(***************************************************************************)
\* the filtered rows of the table the call names
FilteredRows(c) ==
    filterRows(rowsAt(TABLES_DATA, fullKeyOf(c.schemaName, c.tableName)), c.whereClause)

C11_PageSlice ==
    ( /\ Len(history) > 0
      /\ Last.call.op = "getData"
      /\ Last.call.page >= 1 )
    => LET all == FilteredRows(Last.call)
           first == (Last.call.page - 1) * 50
           n == Max(0, Min(50, Len(all) - first))
       IN  /\ Len(Last.result.data) = n
           /\ \A k \in 1..n : Last.result.data[k] = all[first + k]
           /\ Last.result.row_count = n
           /\ Last.result.row_count <= 50
           /\ Last.result.total_rows = Len(all)
           /\ Last.call.page > Last.result.total_pages
              => Last.result.data = << >> /\ Last.result.row_count = 0

\* the last, partial page of 101 rows: one row; and a page past the last one
C11_Witness ==
    /\ Len(history) > 0
    /\ Last.call.op = "getData"
    /\ Last.call.whereClause = << >>
    /\ Last.call.page = 3
    /\ Last.result.total_rows = 101
    /\ Last.result.row_count = 1

(***************************************************************************)
(* C12.  With a non-empty filter getData keeps a row iff some field value   *)
(* of it, converted to text and lower-cased, contains the lower-cased       *)
(* filter; the rows of a page are kept rows in the order the table stores   *)
(* them: the k-th row of page p is the stored row at the ((p-1)*50 + k)-th  *)
(* smallest kept index.                                                     *)
(***************************************************************************)
\* the indices of the stored rows the call's filter keeps
KeptIndices(c) ==
    LET rows == rowsAt(TABLES_DATA, fullKeyOf(c.schemaName, c.tableName))
        text == toLowerCase(c.whereClause)
    IN  { i \in 1..Len(rows) :
            \E f \in 1..Len(rows[i]) :
                LET value == toLowerCase(String(rows[i][f].val))
                IN  \E at \in 0..(Len(value) - Len(text)) :
                        \A m \in 1..Len(text) : value[at + m] = text[m] }

C12_FilterKeepsOrder ==
    ( /\ Len(history) > 0
      /\ Last.call.op = "getData"
      /\ Last.call.whereClause # << >> )
    => LET rows == rowsAt(TABLES_DATA, fullKeyOf(Last.call.schemaName, Last.call.tableName))
           kept == KeptIndices(Last.call)
           first == (Last.call.page - 1) * 50
       IN  /\ Last.result.total_rows = Cardinality(kept)
           /\ Len(Last.result.data) = Max(0, Min(50, Cardinality(kept) - first))
           /\ \A k \in 1..Len(Last.result.data) :
                 \E i \in kept :
                    /\ Cardinality({ j \in kept : j < i }) = first + k - 1
                    /\ Last.result.data[k] = rows[i]

\* the filter "10" kept the row whose number field id is 10 and dropped rows
\* before and after it
C12_Witness ==
    /\ Len(history) > 0
    /\ Last.call.op = "getData"
    /\ Last.call.whereClause = <<"1", "0">>
    /\ Last.call.page = 1
    /\ Last.result.row_count > 1
    /\ 1 \notin KeptIndices(Last.call)
    /\ 10 \in KeptIndices(Last.call)
    /\ 12 \notin KeptIndices(Last.call)
    /\ Len(TABLES_DATA[1].rows) = 120

(***************************************************************************)
(* C13.  validateWhereClause rejects every clause that contains ";", "--"   *)
(* or "/*" at any position, and the error it reports is the comment-pattern *)
(* one, also when the clause contains a forbidden keyword.                  *)
(***************************************************************************)
HasCommentPattern(text) ==
    \E i \in 1..Len(text) :
        \/ text[i] = ";"
        \/ i < Len(text) /\ text[i] = "-" /\ text[i + 1] = "-"
        \/ i < Len(text) /\ text[i] = "/" /\ text[i + 1] = "*"

CommentPatternPrefix ==
    <<"S", "Q", "L", " ", "I", "n", "j", "e", "c", "t", "i", "o", "n", " ", "a", "t", "t", "e", "m", "p", "t", " ", "d", "e", "t", "e", "c", "t", "e", "d", ":", " ", "c", "o", "m", "m", "e", "n", "t", " ", "p", "a", "t", "t", "e", "r", "n">>

C13_CommentPatternsRejected ==
    ( /\ Len(history) > 0
      /\ Last.call.op = "validateWhereClause"
      /\ HasCommentPattern(Last.call.whereClause) )
    => /\ Last.result.isValid = FALSE
       /\ Last.result.error # undefined
       /\ startsWith(Last.result.error[1], CommentPatternPrefix)
       /\ Last.result.error[1] # keywordError

\* "DROP;": a forbidden keyword as a whole word, then a comment pattern
C13_Witness ==
    /\ Len(history) > 0
    /\ Last.call.op = "validateWhereClause"
    /\ Last.call.whereClause = <<"D", "R", "O", "P", ";">>
    /\ Last.result.isValid = FALSE
    /\ startsWith(Last.result.error[1], CommentPatternPrefix)

(***************************************************************************)
(* C14.  A clause without comment patterns is rejected, with the forbidden- *)
(* keyword error, iff one of DELETE, UPDATE, INSERT, DROP, ALTER, EXEC,     *)
(* EXECUTE, CREATE, TRUNCATE occurs in it in any letter case with no        *)
(* letter, digit or underscore right before or right after it; so a keyword *)
(* inside a longer word (dropdown) is accepted, and so is the empty clause. *)
(***************************************************************************)
WordCharacters ==
    { Ascii[k] : k \in 34..59 } \cup { Ascii[k] : k \in 66..91 }
    \cup { Ascii[k] : k \in 17..26 } \cup { "_" }

ClaimedKeywords ==
    { <<"D", "E", "L", "E", "T", "E">>, <<"U", "P", "D", "A", "T", "E">>, <<"I", "N", "S", "E", "R", "T">>,
      <<"D", "R", "O", "P">>, <<"A", "L", "T", "E", "R">>, <<"E", "X", "E", "C">>,
      <<"E", "X", "E", "C", "U", "T", "E">>, <<"C", "R", "E", "A", "T", "E">>, <<"T", "R", "U", "N", "C", "A", "T", "E">> }

HasKeywordAsWord(text) ==
    \E keyword \in ClaimedKeywords :
        \E i \in 0..(Len(text) - Len(keyword)) :
            /\ toLowerCase(SubSeq(text, i + 1, i + Len(keyword))) = toLowerCase(keyword)
            /\ i = 0 \/ text[i] \notin WordCharacters
            /\ i + Len(keyword) = Len(text) \/ text[i + Len(keyword) + 1] \notin WordCharacters

C14_KeywordsAsWords ==
    ( /\ Len(history) > 0
      /\ Last.call.op = "validateWhereClause"
      /\ ~HasCommentPattern(Last.call.whereClause) )
    => /\ Last.result.isValid = ~HasKeywordAsWord(Last.call.whereClause)
       /\ ~Last.result.isValid => Last.result.error = Some(keywordError)
       /\ Last.call.whereClause = << >> => Last.result.isValid
       /\ Last.call.whereClause = <<"d", "r", "o", "p", "d", "o", "w", "n">> => Last.result.isValid

\* "dropdown" was accepted
C14_Witness ==
    /\ Len(history) > 0
    /\ Last.call.op = "validateWhereClause"
    /\ Last.call.whereClause = <<"d", "r", "o", "p", "d", "o", "w", "n">>
    /\ Last.result.isValid

(***************************************************************************)
(* C15.  In every state of the data browser the applied filter, and the     *)
(* filter of every getData call loadData has made or is about to make, is   *)
(* empty or a text validateWhereClause accepts; and a handleApplyFilter     *)
(* step on a text validateWhereClause rejects leaves appliedFilter and page *)
(* as they were.                                                            *)
(***************************************************************************)
Accepted(text) == text = << >> \/ validateWhereClause(text).isValid

C15_AppliedFilterValidated ==
    /\ [](browser # undefined =>
            /\ Accepted(browser.appliedFilter)
            /\ \A i \in 1..Len(timers) :
                  /\ Accepted(timers[i].loadData.appliedFilter)
                  /\ timers[i].call.op = "getData" => Accepted(timers[i].call.whereClause))
    /\ [][( /\ browser # undefined
            /\ browser'.event = "handleApplyFilter"
            /\ ~validateWhereClause(browser.filter).isValid )
          => /\ browser'.appliedFilter = browser.appliedFilter
             /\ browser'.page = browser.page]_vars

\* Apply was refused on page 2 of a filtered table: the applied filter and the
\* page stayed, and the error is shown
C15_Witness ==
    /\ browser # undefined
    /\ browser.event = "handleApplyFilter"
    /\ browser.filter = <<"d", "r", "o", "p">>
    /\ browser.error = Some(keywordError)
    /\ browser.appliedFilter = <<"L", "O", "G", "I", "N">>
    /\ browser.page = 2

(***************************************************************************)
(* C16.  A register call with an email a stored user has returns false and  *)
(* leaves MOCK_USERS as it is, a register call with any other email returns *)
(* true; so no two stored users ever have the same email.                   *)
(***************************************************************************)
\* the step in which a call of op returns
ReturnStep(op) ==
    /\ Len(history') = Len(history) + 1
    /\ history'[Len(history')].call.op = op

StoredEmails == { MOCK_USERS[i].email : i \in 1..Len(MOCK_USERS) }

C16_DuplicateEmail ==
    /\ [][ReturnStep("register") =>
            IF history'[Len(history')].call.email \in StoredEmails
            THEN /\ history'[Len(history')].result = FALSE
                 /\ MOCK_USERS' = MOCK_USERS
            ELSE history'[Len(history')].result = TRUE]_vars
    /\ [](\A i, j \in 1..Len(MOCK_USERS) :
            MOCK_USERS[i].email = MOCK_USERS[j].email => i = j)

\* one new email was registered twice, into two groups: the first call returned
\* true, the second false, and one user was added
C16_Witness ==
    /\ Len(MOCK_USERS) = 4
    /\ \E i, j \in 1..Len(history) :
          /\ i < j
          /\ history[i].call.op = "register"
          /\ history[j].call.op = "register"
          /\ history[i].call.email = history[j].call.email
          /\ history[i].call.groupId # history[j].call.groupId
          /\ history[i].result = TRUE
          /\ history[j].result = FALSE

(***************************************************************************)
(* C17.  A register call that returns true appends one user whose id is the *)
(* number of users stored before it plus 1, a register call that returns    *)
(* false changes nothing; so the user at position i always has id i and the *)
(* ids are pairwise distinct.                                               *)
(***************************************************************************)
C17_SequentialIds ==
    /\ [][ReturnStep("register") =>
            IF history'[Len(history')].result = TRUE
            THEN /\ Len(MOCK_USERS') = Len(MOCK_USERS) + 1
                 /\ SubSeq(MOCK_USERS', 1, Len(MOCK_USERS)) = MOCK_USERS
                 /\ MOCK_USERS'[Len(MOCK_USERS')].id = Len(MOCK_USERS) + 1
            ELSE MOCK_USERS' = MOCK_USERS]_vars
    /\ [](\A i \in 1..Len(MOCK_USERS) : MOCK_USERS[i].id = i)

\* a refused registration, then an accepted one: the refused call used up no
\* id, the new user is the fourth and has id 4
C17_Witness ==
    /\ Len(history) = 2
    /\ \A i \in 1..2 : history[i].call.op = "register"
    /\ history[1].result = FALSE
    /\ history[2].result = TRUE
    /\ Len(MOCK_USERS) = 4
    /\ MOCK_USERS[4].id = 4

(***************************************************************************)
(* C18.  login(email, password) returns the stored user whose email is      *)
(* exactly email when there is one and password is "password", and null in  *)
(* every other case; login never changes MOCK_USERS.                        *)
(***************************************************************************)
C18_Login ==
    /\ [][ReturnStep("login") => MOCK_USERS' = MOCK_USERS]_vars
    /\ []( ( /\ Len(history) > 0
             /\ Last.call.op = "login" )
           => IF /\ Last.call.email \in StoredEmails
                 /\ Last.call.password = <<"p", "a", "s", "s", "w", "o", "r", "d">>
              THEN /\ Last.result # null
                   /\ \E i \in 1..Len(MOCK_USERS) : MOCK_USERS[i] = Last.result[1]
                   /\ Last.result[1].email = Last.call.email
              ELSE Last.result = null )

\* a stored email written with another capital letter was refused although the
\* password was the right one
C18_Witness ==
    /\ Len(history) > 0
    /\ Last.call.op = "login"
    /\ Last.call.password = <<"p", "a", "s", "s", "w", "o", "r", "d">>
    /\ Last.call.email \notin StoredEmails
    /\ toLowerCase(Last.call.email) \in StoredEmails
    /\ Last.result = null

(***************************************************************************)
(* C19.  After register(email, g) returned true, a login with that email    *)
(* and "password" returns a user whose group_id is g and whose group_name   *)
(* is the name of the group with id g, or absent when there is none; the    *)
(* user's accessible schemas and write permissions are those of the         *)
(* permission records of group g.                                           *)
(***************************************************************************)
\* the indices of the permission records of group g (and schema schemaName)
GroupRecords(g) == { i \in 1..Len(MOCK_PERMISSIONS) : MOCK_PERMISSIONS[i].group_id = g }
PairRecords(g, schemaName) ==
    { i \in GroupRecords(g) : MOCK_PERMISSIONS[i].schema_name = schemaName }

C19_GroupAsRequested ==
    \A i, j \in 1..Len(history) :
        ( /\ i < j
          /\ history[i].call.op = "register"
          /\ history[i].result = TRUE
          /\ history[i].call.groupId # undefined
          /\ history[j].call.op = "login"
          /\ history[j].call.email = history[i].call.email
          /\ history[j].call.password = <<"p", "a", "s", "s", "w", "o", "r", "d">> )
        => LET g == history[i].call.groupId[1]
               user == history[j].result
           IN  /\ user # null
               /\ user[1].group_id = Some(g)
               /\ user[1].group_name =
                     IF \E k \in 1..Len(MOCK_GROUPS) : MOCK_GROUPS[k].id = g
                     THEN Some((CHOOSE grp \in Elements(MOCK_GROUPS) : grp.id = g).name)
                     ELSE undefined
               /\ Elements(accessibleSchemas(user[1])) =
                     { MOCK_PERMISSIONS[k].schema_name : k \in GroupRecords(g) }
               /\ \A schemaName \in { public, sales, hr } :
                     hasWritePermission(user[1], schemaName) =
                        ( /\ PairRecords(g, schemaName) # {}
                          /\ MOCK_PERMISSIONS[SetMin(PairRecords(g, schemaName))].permission
                                \in { PermissionLevel.WRITE, PermissionLevel.ADMIN } )

\* a new email was registered into group 1 (Admins) and logged in: the user may
\* write schema hr
C19_Witness ==
    /\ Len(history) > 1
    /\ Last.call.op = "login"
    /\ Last.result # null
    /\ Last.result[1].id = 4
    /\ Last.result[1].group_id = Some(1)
    /\ Last.result[1].group_name = Some(MOCK_GROUPS[1].name)
    /\ hasWritePermission(Last.result[1], hr)
    /\ \E i \in 1..(Len(history) - 1) :
          /\ history[i].call.op = "register"
          /\ history[i].call.email = Last.call.email
          /\ history[i].call.groupId = Some(1)
          /\ history[i].result = TRUE

(***************************************************************************)
(* C20.  getTableInfo(schema, table) always returns: full_name is schema,   *)
(* a dot and table, row_count is the number of rows stored under that key,  *)
(* column_count the number of fields of the first of them; for a key that   *)
(* is absent or holds no rows both counts are 0.                            *)
(***************************************************************************)
\* the store's entries with the key of the call
EntriesOf(c) ==
    { i \in 1..Len(TABLES_DATA) :
        TABLES_DATA[i].key = c.schemaName \o <<".">> \o c.tableName }

C20_TableInfo ==
    ( /\ Len(history) > 0
      /\ Last.call.op = "getTableInfo" )
    => /\ Last.settled = "fulfilled"
       /\ Last.result.schema_name = Last.call.schemaName
       /\ Last.result.table_name = Last.call.tableName
       /\ Last.result.full_name = Last.call.schemaName \o <<".">> \o Last.call.tableName
       /\ IF \E i \in EntriesOf(Last.call) : Len(TABLES_DATA[i].rows) > 0
          THEN \E i \in EntriesOf(Last.call) :
                  /\ Last.result.row_count = Len(TABLES_DATA[i].rows)
                  /\ Last.result.column_count = Len(TABLES_DATA[i].rows[1])
          ELSE /\ Last.result.row_count = 0
               /\ Last.result.column_count = 0

\* a key the store does not have: zero rows, zero columns
C20_Witness ==
    /\ Len(history) > 0
    /\ Last.call.op = "getTableInfo"
    /\ EntriesOf(Last.call) = {}
    /\ Last.settled = "fulfilled"
    /\ Last.result.row_count = 0
    /\ Last.result.column_count = 0

(***************************************************************************)
(* C21.  getTables(schema) returns, in storage order, one entry for every   *)
(* key of TABLES_DATA that starts with schema and a dot, each entry being   *)
(* the key without that prefix; so after updateData(schema, table, rows)    *)
(* has returned, getTables(schema) contains table, also when the name of    *)
(* the table contains a dot.                                                *)
(***************************************************************************)
\* the indices of the store's keys that start with schemaName and a dot
KeysOf(schemaName) ==
    { i \in 1..Len(TABLES_DATA) :
        /\ Len(TABLES_DATA[i].key) > Len(schemaName)
        /\ \A m \in 1..Len(schemaName) : TABLES_DATA[i].key[m] = schemaName[m]
        /\ TABLES_DATA[i].key[Len(schemaName) + 1] = "." }

C21_TablesPrefixStripped ==
    ( /\ Len(history) > 0
      /\ Last.call.op = "getTables" )
    => /\ Len(Last.result) = Cardinality(KeysOf(Last.call.schemaName))
       /\ \A k \in 1..Len(Last.result) :
             \E i \in KeysOf(Last.call.schemaName) :
                /\ Cardinality({ j \in KeysOf(Last.call.schemaName) : j < i }) = k - 1
                /\ Last.result[k] = SubSeq(TABLES_DATA[i].key,
                                           Len(Last.call.schemaName) + 2,
                                           Len(TABLES_DATA[i].key))
       /\ \A i \in 1..(Len(history) - 1) :
             ( /\ history[i].call.op = "updateData"
               /\ history[i].call.schemaName = Last.call.schemaName )
             => history[i].call.tableName \in Elements(Last.result)

(***************************************************************************)
(* C22.  updateData on one (schema, table) pair changes the rows of no      *)
(* other pair: as long as no updateData on the pair itself has returned,    *)
(* getData and getTableInfo on a pair answer from the rows the pair was     *)
(* constructed with, whatever was written to other pairs.                   *)
(***************************************************************************)
\* the updateData calls on the pair of call c that returned before the last call
PairWritten(c) ==
    \E i \in 1..(Len(history) - 1) :
        history[i].call.op = "updateData" /\ SameTable(history[i].call, c)

C22_OtherPairsUnchanged ==
    ( /\ Len(history) > 0
      /\ Last.call.op \in { "getData", "getTableInfo" }
      /\ ~PairWritten(Last.call) )
    => LET rows == rowsAt(InitialTables(env),
                          fullKeyOf(Last.call.schemaName, Last.call.tableName))
       IN  IF Last.call.op = "getData"
           THEN Last.result = queryResult(rows, Last.call.page, Last.call.whereClause)
           ELSE /\ Last.result.row_count = Len(rows)
                /\ Last.result.column_count = IF Len(rows) > 0 THEN Len(rows[1]) ELSE 0

(***************************************************************************)
(* C23.  Two register calls for one email that was not stored before, in    *)
(* flight together (the second was issued before the first returned): one   *)
(* of the two returns true, the other false, and one user with the email is *)
(* stored, since the check and the push of register run in one step after    *)
(* the delay.                                                               *)
(***************************************************************************)
\* the register calls i < j of the history were in flight together
InFlightTogether(i, j) ==
    /\ i < j
    /\ history[i].call.op = "register"
    /\ history[j].call.op = "register"
    /\ history[i].call.email = history[j].call.email
    /\ history[j].issuedAt < i

\* the email was stored neither at construction nor by a call that returned
\* before call i
UnusedBefore(i, email) ==
    /\ \A u \in 1..Len(InitialUsers) : InitialUsers[u].email # email
    /\ \A k \in 1..(i - 1) :
          ~( /\ history[k].call.op = "register"
             /\ history[k].call.email = email
             /\ history[k].result = TRUE )

C23_ConcurrentRegister ==
    \A i, j \in 1..Len(history) :
        (InFlightTogether(i, j) /\ UnusedBefore(i, history[i].call.email))
        => /\ (history[i].result = TRUE) # (history[j].result = TRUE)
           /\ Cardinality({ u \in 1..Len(MOCK_USERS) :
                               MOCK_USERS[u].email = history[i].call.email }) = 1

\* two calls for the new email were issued before either returned: the one that
\* resumed first returned true, the other false, and one user was added
C23_Witness ==
    /\ Len(history) = 2
    /\ InFlightTogether(1, 2)
    /\ history[1].issuedAt = 0
    /\ history[2].issuedAt = 0
    /\ history[1].call.email = newEmail
    /\ history[1].result = TRUE
    /\ history[2].result = FALSE
    /\ Len(MOCK_USERS) = Len(InitialUsers) + 1
    /\ MOCK_USERS[Len(MOCK_USERS)].email = newEmail

====
